---- MODULE Spec2Model ----
(***************************************************************************)
(* cloudwatcher: the watch loop of src/main.rs (watch_log_groups) and the  *)
(* event source adapter (get_group_events).                                *)
(*                                                                         *)
(* One tick = compute the lower bound, push one query per group into a     *)
(* FuturesUnordered, collect all results, filter them against seen_events, *)
(* sort the survivors by timestamp, print them, sleep.                     *)
(***************************************************************************)
EXTENDS Integers, Sequences, FiniteSets, TLC

(***************************************************************************)
(* Bounds of the model.                                                    *)
(***************************************************************************)
\* Longest event list a response of the service carries in the model (the
\* request asks for pages of at most 100 events, main.rs:72).
MaxEvents == 2
\* The last millisecond OffsetDateTime can hold in the model.  It stands for
\* 9999-12-31T23:59:59.999 (253402300799999 ms since the epoch), which is
\* beyond the integers TLC computes with.
MaxDateMs == 1
\* Longest message, in pieces of MessagePieces, that is classified.
MaxPieces == 3
\* The ticks WatchSpec follows the loop for.
MaxTicks == 3
\* The longest a tick's queries, merge and print loop take, in seconds.
MaxLatency == 1

(***************************************************************************)
(* Inputs.                                                                 *)
(***************************************************************************)
\* Option<T>: None is the empty tuple, Some(x) the tuple of x.
None == <<>>
Some(x) == <<x>>

\* The watch targets given on the command line (non-empty, main.rs:187).
GroupLists == { <<"svc-a">>, <<"svc-a", "svc-b">> }

\* What OffsetDateTime::now_utc() can read when a tick starts, in seconds
\* since the epoch.
ClockReadings == {600, 601}

\* The event ids the service assigns (never the empty string).
ServiceIds == {"e1"}

\* FilteredLogEvent.event_id : Option<String>
RawIds == { Some(id) : id \in ServiceIds } \cup {None}
\* FilteredLogEvent.timestamp : Option<i64>, milliseconds since the epoch.
\* Absent, the last instant OffsetDateTime can represent, and the first one it
\* cannot.
RawTimestamps == {None, Some(MaxDateMs), Some(MaxDateMs + 1)}

RawEvents == [event_id : RawIds, timestamp : RawTimestamps]

SeqsUpTo(S, n) == UNION { [1..k -> S] : k \in 0..n }

\* What the service answers to one filter_log_events call: an error, or a
\* page of events (events : Option<Vec<FilteredLogEvent>>).
RawResponses ==
    {[ok |-> FALSE, events |-> <<>>]}
        \cup { [ok |-> TRUE, events |-> es] : es \in SeqsUpTo(RawEvents, MaxEvents) }

(***************************************************************************)
(* The lower bound of a tick's queries (main.rs:115-116).                  *)
(***************************************************************************)
LOOKBACK_SECS == 600
MS_PER_SEC == 1000

\* (now - Duration::from_secs(600)).unix_timestamp() * 1000
LowerBound(now) == (now - LOOKBACK_SECS) * MS_PER_SEC

(***************************************************************************)
(* get_group_events: conversion of a response into Vec<LogEvent>.          *)
(***************************************************************************)
NANOS_PER_MS == 1000000

\* Option<String>::unwrap_or_default
UnwrapOrDefaultId(x) == IF x = None THEN "" ELSE x[1]
\* Option<i64>::unwrap_or_default
UnwrapOrDefaultTs(x) == IF x = None THEN 0 ELSE x[1]

\* The nanoseconds handed to OffsetDateTime::from_unix_timestamp_nanos.
TimestampNanos(raw) == UnwrapOrDefaultTs(raw.timestamp) * NANOS_PER_MS

\* OffsetDateTime::from_unix_timestamp_nanos is Ok only inside the range of
\* dates the type can hold.
FromUnixTimestampNanosOk(n) ==
    /\ n >= 0
    /\ n <= MaxDateMs * NANOS_PER_MS + (NANOS_PER_MS - 1)

\* The closure of main.rs:81-92 (the message plays no part in dedup or order).
ToLogEvent(group, raw) ==
    [event_id  |-> UnwrapOrDefaultId(raw.event_id),
     group     |-> group,
     timestamp |-> TimestampNanos(raw)]

\* GetGroupEventsOutcome as it would be if an event whose timestamp does not
\* convert were skipped.
GetGroupEventsSkipping(group, resp) ==
    IF ~resp.ok
    THEN [kind |-> "Err", events |-> <<>>]
    ELSE [kind |-> "Ok",
          events |-> LET keep == SelectSeq(resp.events,
                                   LAMBDA r : FromUnixTimestampNanosOk(TimestampNanos(r)))
                     IN [k \in 1..Len(keep) |-> ToLogEvent(group, keep[k])]]

\* The outcome of one get_group_events future once the response is in:
\* Err (the ? of line 75), a panic (the expect of line 87), or Ok(events).
GetGroupEventsOutcome(group, resp) ==
    IF ~resp.ok
    THEN [kind |-> "Err", events |-> <<>>]
    ELSE IF \E k \in 1..Len(resp.events) :
                ~FromUnixTimestampNanosOk(TimestampNanos(resp.events[k]))
         THEN [kind |-> "Panic", events |-> <<>>]
         ELSE [kind |-> "Ok",
               events |-> [k \in 1..Len(resp.events) |->
                              ToLogEvent(group, resp.events[k])]]

(***************************************************************************)
(* Dedup and merge.                                                        *)
(***************************************************************************)
\* Result::unwrap_or_default (main.rs:126)
UnwrapOrDefault(result) == IF result.kind = "Ok" THEN result.events ELSE <<>>

RECURSIVE FlattenOk(_)
FlattenOk(rs) ==
    IF rs = <<>> THEN <<>> ELSE Head(rs).events \o FlattenOk(Tail(rs))

\* Flatten as it would be if one Err discarded the results of the tick.
FlattenAllOrNothing(rs) ==
    IF \E k \in 1..Len(rs) : rs[k].kind # "Ok" THEN <<>> ELSE FlattenOk(rs)

\* The events of all results in the order the two for loops visit them.
RECURSIVE Flatten(_)
Flatten(rs) ==
    IF rs = <<>> THEN <<>>
    ELSE UnwrapOrDefault(Head(rs)) \o Flatten(Tail(rs))

\* InsertIsNew as it would be without the seen set.
InsertAlwaysNew(seen, event) == TRUE

\* HashSet::insert returns true iff the id was not in the set (main.rs:127).
InsertIsNew(seen, event) == event.event_id \notin seen

\* Dedup as it would be if the seen set kept the ids of the last tick only.
DedupEvicting(events, seen, acc) ==
    << { events[k].event_id : k \in 1..Len(events) },
       acc \o SelectSeq(events, LAMBDA e : e.event_id \notin seen) >>

\* The set as it is when the loops reach events[k]: what it held before, and
\* the id of every event visited so far (insert adds the id in either case).
SeenBefore(events, seen, k) == seen \cup { events[j].event_id : j \in 1..(k - 1) }

\* main.rs:125-131: <<seen_events, new_events>> after the loops.  An event is
\* pushed iff insert returned true when the loops reached it.
Dedup(events, seen, acc) ==
    LET pushed == SelectSeq([k \in 1..Len(events) |-> k],
                            LAMBDA k : InsertIsNew(SeenBefore(events, seen, k), events[k]))
    IN << SeenBefore(events, seen, Len(events) + 1),
          acc \o [p \in 1..Len(pushed) |-> events[pushed[p]]] >>

\* Precedes as it would be if, of two events of one timestamp, the later in
\* the vector went first.
PrecedesLaterFirst(events, j, k) ==
    \/ events[j].timestamp < events[k].timestamp
    \/ events[j].timestamp = events[k].timestamp /\ j > k

\* events[j] stands before events[k] once the vector is sorted: sort_by is
\* stable, so elements the comparison finds equal keep their order.
Precedes(events, j, k) ==
    \/ events[j].timestamp < events[k].timestamp
    \/ events[j].timestamp = events[k].timestamp /\ j < k

\* The sorted vector: at each position the element that as many elements
\* precede.
SortBy(events) ==
    LET n == Len(events)
        rank == [k \in 1..n |-> Cardinality({ j \in 1..n : Precedes(events, j, k) })]
    IN [p \in 1..n |-> events[CHOOSE k \in 1..n : rank[k] = p - 1]]

Reversed(events) == [k \in 1..Len(events) |-> events[Len(events) + 1 - k]]

\* SortByTimestamp as it would be with the comparison the other way round.
SortByTimestampReversed(events) == Reversed(SortBy(events))

\* SortByTimestamp as it would be without the sort.
ArrivalOrder(events) == events

\* new_events.sort_by(|a, b| a.timestamp.cmp(&b.timestamp)) (main.rs:133)
SortByTimestamp(events) == SortBy(events)

(***************************************************************************)
(* State.                                                                  *)
(***************************************************************************)
VARIABLES
    group_names,   \* the watch target
    pc,            \* where the loop is
    start_time,    \* the lower bound of this tick, while the push loop needs it
    queries,       \* the futures of this tick, by position in group_names
    results,       \* the results collected so far, in completion order
    seen_events,   \* HashSet<String>
    new_events,    \* Vec<LogEvent> of this tick, consumed by the print loop
    output,        \* the lines written to standard output so far
    tick_seen,     \* history: seen_events when this tick started
    tick_out,      \* history: Len(output) when this tick started
    clock,         \* the time of day, in seconds since the epoch
    refresh,       \* the Duration given to watch_log_groups, in seconds
    log,           \* the events the service holds, by group, in time order
    issued         \* history: the clock readings the ticks started at

\* What only WatchSpec moves.  In Spec and ClassifySpec the clock readings are
\* inputs of StartTick and the answers of the service inputs of CompleteQuery.
watch_vars == <<clock, refresh, log, issued>>

vars == <<group_names, pc, start_time, queries, results, seen_events,
          new_events, output, tick_seen, tick_out, clock, refresh, log, issued>>

N == Len(group_names)

\* A future of get_group_events: not created, pushed (created, never polled),
\* pending (request sent, waiting at line 75), done (returned) or panicked.
\* start_time is the argument it was created with, response the answer of
\* the service once it is in.
NotPushed ==
    [status |-> "none", start_time |-> None, response |-> None]
Pushed(t) ==
    [status |-> "pushed", start_time |-> t, response |-> None]
Pending(t) ==
    [status |-> "pending", start_time |-> t, response |-> None]
Returned(resp) ==
    [status |-> "done", start_time |-> None, response |-> Some(resp)]
Panicked(resp) ==
    [status |-> "panicked", start_time |-> None, response |-> Some(resp)]

Init ==
    /\ group_names \in GroupLists
    /\ pc = "TickStart"
    /\ start_time = None
    /\ queries = [i \in 1..Len(group_names) |-> NotPushed]
    /\ results = <<>>
    /\ seen_events = {}
    /\ new_events = <<>>
    /\ output = <<>>
    /\ tick_seen = {}
    /\ tick_out = 0
    /\ clock = 0
    /\ refresh = None
    /\ log = <<>>
    /\ issued = <<>>

(***************************************************************************)
(* Actions.                                                                *)
(***************************************************************************)
\* main.rs:115-117: a new iteration of the loop reads the clock.
StartTick(now) ==
    /\ pc = "TickStart"
    /\ pc' = "Querying"
    /\ start_time' = Some(LowerBound(now))
    /\ queries' = [i \in 1..N |-> NotPushed]
    /\ results' = <<>>
    /\ new_events' = <<>>
    /\ tick_seen' = seen_events
    /\ tick_out' = Len(output)
    /\ UNCHANGED <<group_names, seen_events, output>>
    /\ UNCHANGED watch_vars

\* The position the for loop of main.rs:118 is at.
NextToPush == Cardinality({i \in 1..N : queries[i].status # "none"}) + 1

\* PushQuery as it would be if the future were driven where it is created.
PushQueryPolled(i) ==
    /\ pc = "Querying"
    /\ start_time # None
    /\ i = NextToPush
    /\ queries[i].status = "none"
    /\ queries' = [queries EXCEPT ![i] = Pending(start_time)]
    /\ UNCHANGED <<group_names, pc, start_time, results, seen_events,
                   new_events, output, tick_seen, tick_out>>
    /\ UNCHANGED watch_vars

\* main.rs:119: the future is created and pushed; nothing of it runs yet.
PushQuery(i) ==
    /\ pc = "Querying"
    /\ start_time # None
    /\ i = NextToPush
    /\ queries[i].status = "none"
    /\ queries' = [queries EXCEPT ![i] = Pushed(start_time)]
    /\ UNCHANGED <<group_names, pc, start_time, results, seen_events,
                   new_events, output, tick_seen, tick_out>>
    /\ UNCHANGED watch_vars

\* main.rs:122, first poll of collect: FuturesUnordered polls every pushed
\* future once, each sends its request and is left waiting for the answer.
\* start_time is not read after the push loop.
PollAll ==
    /\ pc = "Querying"
    /\ start_time # None
    /\ \A i \in 1..N : queries[i].status = "pushed"
    /\ queries' = [i \in 1..N |-> Pending(queries[i].start_time)]
    /\ start_time' = None
    /\ UNCHANGED <<group_names, pc, results, seen_events, new_events, output,
                   tick_seen, tick_out>>
    /\ UNCHANGED watch_vars

\* CollectReady as it would be if the first result ended the wait.
FirstResultReady(qs) == \E i \in DOMAIN qs : qs[i].status = "done"

\* collect returns when the stream of futures is exhausted (main.rs:122).
CollectReady(qs) == \A i \in DOMAIN qs : qs[i].status = "done"

\* CompleteQuery as it would be if the future itself recorded the ids it got.
CompleteQueryMarking(i, resp) ==
    /\ pc = "Querying"
    /\ queries[i].status = "pending"
    /\ LET out == GetGroupEventsOutcome(group_names[i], resp)
           qs  == [queries EXCEPT ![i] = Returned(resp)]
       IN
         /\ IF out.kind = "Panic"
            THEN /\ pc' = "Panicked"
                 /\ queries' = [j \in 1..N |-> IF j = i THEN Panicked(resp) ELSE NotPushed]
                 /\ results' = <<>>
            ELSE /\ pc' = IF CollectReady(qs) THEN "Merging" ELSE "Querying"
                 /\ queries' = qs
                 /\ results' = Append(results, out)
         /\ seen_events' = seen_events \cup
                { out.events[k].event_id : k \in 1..Len(out.events) }
    /\ UNCHANGED <<group_names, start_time, new_events, output,
                   tick_seen, tick_out>>
    /\ UNCHANGED watch_vars

\* The service answers the request of query i and collect polls the woken
\* future, which runs lines 75-93 to their end: results arrive in the order
\* the answers do.  A panic unwinds through collect and main: the process is
\* gone, only what it wrote remains.  The poll that takes the last result is
\* also the one in which collect returns.
CompleteQuery(i, resp) ==
    /\ pc = "Querying"
    /\ queries[i].status = "pending"
    /\ LET out == GetGroupEventsOutcome(group_names[i], resp)
           qs  == [queries EXCEPT ![i] = Returned(resp)]
       IN
         IF out.kind = "Panic"
         THEN /\ pc' = "Panicked"
              /\ queries' = [j \in 1..N |-> IF j = i THEN Panicked(resp) ELSE NotPushed]
              /\ results' = <<>>
         ELSE /\ pc' = IF CollectReady(qs) THEN "Merging" ELSE "Querying"
              /\ queries' = qs
              /\ results' = Append(results, out)
    /\ UNCHANGED <<group_names, start_time, seen_events, new_events, output,
                   tick_seen, tick_out>>
    /\ UNCHANGED watch_vars

\* main.rs:123-133: dedup against seen_events, then sort.
Merge ==
    /\ pc = "Merging"
    /\ LET d == Dedup(Flatten(results), seen_events, <<>>) IN
         /\ seen_events' = d[1]
         /\ new_events' = SortByTimestamp(d[2])
    /\ pc' = "Rendering"
    /\ UNCHANGED <<group_names, start_time, queries, results, output,
                   tick_seen, tick_out>>
    /\ UNCHANGED watch_vars

\* RenderEvent as it would be if an event without an id were not printed.
RenderEventUnlessNoId ==
    /\ pc = "Rendering"
    /\ new_events # <<>>
    /\ output' = IF Head(new_events).event_id = "" THEN output
                 ELSE Append(output, Head(new_events))
    /\ new_events' = Tail(new_events)
    /\ UNCHANGED <<group_names, pc, start_time, queries, results, seen_events,
                   tick_seen, tick_out>>
    /\ UNCHANGED watch_vars

\* main.rs:134-152: one iteration of the print loop.
RenderEvent ==
    /\ pc = "Rendering"
    /\ new_events # <<>>
    /\ output' = Append(output, Head(new_events))
    /\ new_events' = Tail(new_events)
    /\ UNCHANGED <<group_names, pc, start_time, queries, results, seen_events,
                   tick_seen, tick_out>>
    /\ UNCHANGED watch_vars

\* RenderFinished as it would be if the loop went on to the sleep only after
\* a tick that printed something.
RenderFinishedIfWrote == new_events = <<>> /\ Len(output) > tick_out

\* RenderFinished as it would be if the sleep did not wait for the print loop.
RenderDetached == TRUE

\* The print loop is over when new_events is consumed.
RenderFinished == new_events = <<>>

\* main.rs:154: the sleep starts; the results of the tick are gone.
Sleep ==
    /\ pc = "Rendering"
    /\ RenderFinished
    /\ pc' = "Sleeping"
    /\ queries' = [i \in 1..N |-> NotPushed]
    /\ results' = <<>>
    /\ UNCHANGED <<group_names, start_time, seen_events, new_events, output,
                   tick_seen, tick_out>>
    /\ UNCHANGED watch_vars

\* main.rs:154-155: the sleep is over, back to the top of the loop.
Wake ==
    /\ pc = "Sleeping"
    /\ pc' = "TickStart"
    /\ UNCHANGED <<group_names, start_time, queries, results, seen_events,
                   new_events, output, tick_seen, tick_out>>
    /\ UNCHANGED watch_vars

Next ==
    \/ \E now \in ClockReadings : StartTick(now)
    \/ \E i \in 1..N : PushQuery(i)
    \/ PollAll
    \/ \E i \in 1..N : \E resp \in RawResponses : CompleteQuery(i, resp)
    \/ Merge
    \/ RenderEvent
    \/ Sleep
    \/ Wake

Spec == Init /\ [][Next]_vars

\* Every step the runtime can take is eventually taken: the executor keeps
\* polling, the sleep ends, and every issued query is answered.
FairSpec == Spec /\ WF_vars(Next)

(***************************************************************************)
(* The print loop with the message and its style (main.rs:134-152).        *)
(***************************************************************************)
INFO  == <<"I", "N", "F", "O">>
ERROR == <<"E", "R", "R", "O", "R">>
WARN  == <<"W", "A", "R", "N">>

\* A message is a sequence of characters, here put together from pieces: the
\* three markers, a marker in lower case, the two halves of a marker, and
\* other text.
MessagePieces ==
    { INFO, ERROR, WARN, <<"i", "n", "f", "o">>, <<"I", "N">>, <<"F", "O">>, <<"-">> }

RECURSIVE Concat(_)
Concat(pieces) ==
    IF pieces = <<>> THEN <<>> ELSE Head(pieces) \o Concat(Tail(pieces))

\* LogEvent.message
Messages == { Concat(ps) : ps \in SeqsUpTo(MessagePieces, MaxPieces) }

\* str::contains: pat occurs in message as a run of adjacent characters.
Contains(message, pat) ==
    \E i \in 0..(Len(message) - Len(pat)) :
        SubSeq(message, i + 1, i + Len(pat)) = pat

\* MessageStyle as it would be if ERROR were looked for first.
MessageStyleErrorFirst(message) ==
    IF Contains(message, ERROR) THEN "red"
    ELSE IF Contains(message, INFO) THEN "blue"
    ELSE IF Contains(message, WARN) THEN "yellow"
    ELSE "default"

\* main.rs:136-144: the style applied to the message.
MessageStyle(message) ==
    IF Contains(message, INFO) THEN "blue"
    ELSE IF Contains(message, ERROR) THEN "red"
    ELSE IF Contains(message, WARN) THEN "yellow"
    ELSE "default"

\* main.rs:146-151: the line printed for an event.
FormatLine(event) ==
    [timestamp |-> [text |-> event.timestamp, style |-> "green"],
     group     |-> [text |-> event.group, style |-> "magenta"],
     message   |-> [text |-> event.message, style |-> MessageStyle(event.message)]]

\* The print loop is entered with one event to write, of any message.
ClassifyInit ==
    /\ group_names = <<"svc-a">>
    /\ pc = "Rendering"
    /\ start_time = None
    /\ queries = <<Returned([ok |-> TRUE, events |-> <<>>])>>
    /\ results = <<>>
    /\ seen_events = {"e1"}
    /\ \E m \in Messages :
          new_events = << [event_id |-> "e1", group |-> "svc-a",
                           timestamp |-> 0, message |-> m] >>
    /\ output = <<>>
    /\ tick_seen = {}
    /\ tick_out = 0
    /\ clock = 0
    /\ refresh = None
    /\ log = <<>>
    /\ issued = <<>>

\* main.rs:134-152: one iteration of the print loop, the line as printed.
RenderLine ==
    /\ pc = "Rendering"
    /\ new_events # <<>>
    /\ output' = Append(output, FormatLine(Head(new_events)))
    /\ new_events' = Tail(new_events)
    /\ UNCHANGED <<group_names, pc, start_time, queries, results, seen_events,
                   tick_seen, tick_out>>
    /\ UNCHANGED watch_vars

ClassifyNext == RenderLine

ClassifySpec == ClassifyInit /\ [][ClassifyNext]_vars

(***************************************************************************)
(* main and the loop against a clock and a service that holds a log.       *)
(***************************************************************************)
\* The groups argument of watch: any list, the empty one too.
WatchArgs == { <<>>, <<"svc-a">>, <<"svc-a", "svc-b">> }

\* The --refresh argument: absent, or a number and a unit.
RefreshArgs ==
    { None, Some(<<10, "s">>), Some(<<11, "m">>), Some(<<1, "h">>), Some(<<10, "x">>) }

DEFAULT_REFRESH_SECS == 10
PAGE_LIMIT == 100

\* humantime::parse_duration: seconds, or an error for what is no duration.
ParseDuration(text) ==
    LET n == text[1]
        unit == text[2]
    IN IF unit = "s" THEN [ok |-> TRUE, secs |-> n]
       ELSE IF unit = "m" THEN [ok |-> TRUE, secs |-> n * 60]
       ELSE IF unit = "h" THEN [ok |-> TRUE, secs |-> n * 3600]
       ELSE [ok |-> FALSE, secs |-> 0]

\* main.rs:195-197: refresh.map(parse_duration(..).expect(..))
\*                         .unwrap_or_else(|| Duration::new(10, 0))
RefreshDuration(arg) ==
    IF arg = None THEN [ok |-> TRUE, secs |-> DEFAULT_REFRESH_SECS]
    ELSE ParseDuration(arg[1])

\* NoGroups as it would be without the check.
NoGroupsNever(groups) == FALSE

\* main.rs:187: groups.is_empty()
NoGroups(groups) == groups = <<>>

\* A group that holds k events, all of the same millisecond.
StoredEvents(group, k) ==
    [i \in 1..k |-> [event_id |-> Some(group \o "-" \o ToString(i)),
                     timestamp |-> Some(MaxDateMs)]]

\* What the service may hold: svc-a nothing, one event, a full page, or one
\* event more than a page; svc-b one event.
LogStores ==
    { [g \in {"svc-a", "svc-b"} |->
          IF g = "svc-a" THEN StoredEvents(g, k) ELSE StoredEvents(g, 1)] :
      k \in {0, 1, PAGE_LIMIT, PAGE_LIMIT + 1} }

\* main.rs:69-75: filter_log_events().limit(100).start_time(t) answers with
\* the first events at or after t, a page of them at most; no further page is
\* asked for.
FilterLogEvents(stored, t) ==
    LET hits == SelectSeq(stored, LAMBDA e : UnwrapOrDefaultTs(e.timestamp) >= t)
    IN [ok |-> TRUE,
        events |-> SubSeq(hits, 1, IF Len(hits) < PAGE_LIMIT THEN Len(hits)
                                   ELSE PAGE_LIMIT)]

WatchInit ==
    /\ group_names \in WatchArgs
    /\ pc = "Main"
    /\ start_time = None
    /\ queries = [i \in 1..Len(group_names) |-> NotPushed]
    /\ results = <<>>
    /\ seen_events = {}
    /\ new_events = <<>>
    /\ output = <<>>
    /\ tick_seen = {}
    /\ tick_out = 0
    /\ clock \in ClockReadings
    /\ refresh = None
    /\ log \in LogStores
    /\ issued = <<>>

\* main.rs:182-199: the watch command.  No group: a message and Ok(()).  A
\* refresh that is no duration: the expect panics.  Else the loop is entered.
MainWatch(arg) ==
    /\ pc = "Main"
    /\ IF NoGroups(group_names)
       THEN /\ pc' = "Exited"
            /\ output' = <<"No log groups to watch">>
            /\ refresh' = refresh
       ELSE LET d == RefreshDuration(arg) IN
            IF d.ok
            THEN /\ pc' = "TickStart"
                 /\ refresh' = Some(d.secs)
                 /\ output' = output
            ELSE /\ pc' = "ConfigPanic"
                 /\ UNCHANGED <<refresh, output>>
    /\ UNCHANGED <<group_names, start_time, queries, results, seen_events,
                   new_events, tick_seen, tick_out, clock, log, issued>>

\* What the future at position i gets from the service in a tick of lower
\* bound t.
Answer(i, t) == FilterLogEvents(log[group_names[i]], t)

\* main.rs:114-155, one whole iteration, as StartTick to Wake make it with
\* the queries answered from the log in the order of the groups: the results
\* are merged and printed and the loop sleeps, or a query panics.  The clock
\* moves by the time the tick took and by the sleep.
WatchTick(latency) ==
    /\ pc = "TickStart"
    /\ Len(issued) < MaxTicks
    /\ LET t    == LowerBound(clock)
           outs == [i \in 1..N |-> GetGroupEventsOutcome(group_names[i], Answer(i, t))]
           d    == Dedup(Flatten(outs), seen_events, <<>>)
       IN
         IF \E i \in 1..N : outs[i].kind = "Panic"
         THEN /\ pc' = "Panicked"
              /\ UNCHANGED <<seen_events, output, clock>>
         ELSE /\ pc' = "TickStart"
              /\ seen_events' = d[1]
              /\ output' = output \o SortByTimestamp(d[2])
              /\ clock' = clock + latency + refresh[1]
    /\ tick_seen' = seen_events
    /\ tick_out' = Len(output)
    /\ issued' = Append(issued, clock)
    /\ UNCHANGED <<group_names, start_time, queries, results, new_events,
                   refresh, log>>

WatchNext ==
    \/ \E arg \in RefreshArgs : MainWatch(arg)
    \/ \E latency \in 0..MaxLatency : WatchTick(latency)

WatchSpec == WatchInit /\ [][WatchNext]_vars

TypeOK ==
    /\ pc \in {"TickStart", "Querying", "Merging", "Rendering", "Sleeping", "Panicked"}
    /\ seen_events \subseteq (ServiceIds \cup {""})
    /\ \A i \in 1..N : queries[i].status \in {"none", "pushed", "pending", "done", "panicked"}
    /\ tick_out <= Len(output)

(***************************************************************************)
(* Properties.                                                             *)
(***************************************************************************)
\* The lines written since this tick started.
TickLines == SubSeq(output, tick_out + 1, Len(output))

\* The print loop of this tick has written its last line.
TickRendered == pc = "Rendering" /\ new_events = <<>>

NonDecreasing(events) ==
    \A i, j \in 1..Len(events) :
        i < j => events[i].timestamp <= events[j].timestamp

\* The result of the future at position i, once it has returned.
ResultOf(i) == GetGroupEventsOutcome(group_names[i], queries[i].response[1])

\* The number of lines that show event e.  An id the service assigned names
\* one event wherever it is met; events the service gave no id are told apart
\* by their group and time.
LinesOf(e) ==
    Cardinality({k \in 1..Len(output) :
                    IF e.event_id # "" THEN output[k].event_id = e.event_id
                    ELSE output[k] = e})

HasBadTimestamp(resp) ==
    /\ resp.ok
    /\ \E k \in 1..Len(resp.events) :
          ~FromUnixTimestampNanosOk(TimestampNanos(resp.events[k]))

\* C1: no two lines of the whole output carry the same event id, whatever
\* the ticks, the groups and the repetitions the id came back in.
C1_DedupAtMostOnce ==
    \A i, j \in 1..Len(output) :
        i # j => output[i].event_id # output[j].event_id

\* C1 witness: a later tick got back, from another group, an id that was
\* already written, and wrote nothing for it.
C1_Witness ==
    /\ TickRendered
    /\ tick_out > 0
    /\ \E k \in 1..Len(Flatten(results)) : \E l \in 1..tick_out :
          /\ Flatten(results)[k].event_id = output[l].event_id
          /\ Flatten(results)[k].group # output[l].group
    /\ \E k, l \in 1..Len(Flatten(results)) :
          k # l /\ Flatten(results)[k].event_id = Flatten(results)[l].event_id

\* C2: once a tick has written its lines, every event of every successful
\* response of the tick is shown by exactly one line of the output.
C2_ExactlyOnce ==
    TickRendered =>
        \A k \in 1..Len(Flatten(results)) : LinesOf(Flatten(results)[k]) = 1

\* C3: the lines written in one tick, and the events still to be written in
\* it, are in non-decreasing order of timestamp.
C3_TickOrdered == NonDecreasing(TickLines \o new_events)

\* C3 witness: two groups, the survivors arrived in decreasing order of
\* timestamp, and both were written.
C3_Witness ==
    /\ TickRendered
    /\ N = 2
    /\ Len(TickLines) = 2
    /\ TickLines[1].group # TickLines[2].group
    /\ ~NonDecreasing(Dedup(Flatten(results), tick_seen, <<>>)[2])

\* C4: when a tick whose queries all returned, some of them with an error,
\* has written its lines, every id not seen before the tick that a
\* successful result holds is shown by a line of this tick, and every line of
\* the tick is an event of a successful result.
C4_FanOutIsolation ==
    TickRendered =>
        /\ \A k \in 1..Len(results) :
              results[k].kind = "Ok" =>
                  \A m \in 1..Len(results[k].events) :
                      results[k].events[m].event_id \notin tick_seen =>
                          \E l \in 1..Len(TickLines) :
                              TickLines[l].event_id = results[k].events[m].event_id
        /\ \A l \in 1..Len(TickLines) :
              \E k \in 1..Len(results) :
                  /\ results[k].kind = "Ok"
                  /\ \E m \in 1..Len(results[k].events) :
                        results[k].events[m] = TickLines[l]

\* C4 witness: one query failed, the other returned events, and the tick
\* wrote them.
C4_Witness ==
    /\ TickRendered
    /\ N = 2
    /\ results[1].kind = "Err"
    /\ results[2].kind = "Ok"
    /\ Len(TickLines) = 2

\* C5: the loop is never aborted by what a query of a tick returns.
C5_NeverAborted == pc # "Panicked"

\* C6: a response holding a timestamp that does not convert never becomes a
\* result, an error or a shorter list: the future that received it panicked,
\* and from then on the program takes no step.
C6_TimestampPanics ==
    /\ \A i \in 1..N :
          (queries[i].response # None /\ HasBadTimestamp(queries[i].response[1]))
              => (queries[i].status = "panicked" /\ pc = "Panicked")
    /\ pc = "Panicked" => ~ENABLED Next

\* C6 witness: after a tick that wrote lines, a response with one good and
\* one bad timestamp stopped the program.
C6_Witness ==
    /\ pc = "Panicked"
    /\ output # <<>>
    /\ \E i \in 1..N :
          /\ queries[i].status = "panicked"
          /\ Len(queries[i].response[1].events) = 2
          /\ FromUnixTimestampNanosOk(
                 TimestampNanos(queries[i].response[1].events[1]))

\* C7: a new tick is started again and again.
C7_TicksForever == []<>(pc = "TickStart")

\* C8: the merge and the print loop run only when every query of the tick
\* has returned and its result is collected; while queries are outstanding
\* the seen set is as the tick found it and nothing is written; the results
\* held are those of this tick's returned queries, one each.
C8_WaitForAll ==
    /\ pc \in {"Merging", "Rendering"} =>
          /\ \A i \in 1..N : queries[i].status = "done"
          /\ Len(results) = N
    /\ pc = "Querying" =>
          /\ seen_events = tick_seen
          /\ new_events = <<>>
          /\ Len(output) = tick_out
    /\ pc # "Panicked" =>
          /\ Len(results) = Cardinality({i \in 1..N : queries[i].status = "done"})
          /\ \A k \in 1..Len(results) :
                \E i \in 1..N : queries[i].status = "done" /\ results[k] = ResultOf(i)

\* C8 witness: the query pushed first was the last to return, and the merge
\* starts with both results, the straggler's last.
C8_Witness ==
    /\ pc = "Merging"
    /\ N = 2
    /\ ResultOf(1) # ResultOf(2)
    /\ results = <<ResultOf(2), ResultOf(1)>>

\* C9: while the queries of a tick are running, if one has returned then
\* every other one has been started, and all those created carry the lower
\* bound of the tick.
C9_ConcurrentStart ==
    pc = "Querying" =>
        /\ (\E i \in 1..N : queries[i].status = "done") =>
               \A j \in 1..N : queries[j].status \in {"pending", "done"}
        /\ (\E i \in 1..N : queries[i].status = "pending") =>
               \A j \in 1..N : queries[j].status \in {"pending", "done"}
        /\ \A i, j \in 1..N :
               (queries[i].status \in {"pushed", "pending"}
                    /\ queries[j].status \in {"pushed", "pending"})
                   => /\ queries[i].start_time # None
                      /\ queries[i].start_time = queries[j].start_time
        /\ \A i \in 1..N :
               (queries[i].status = "pushed") => queries[i].start_time = start_time

\* C9 witness: one of two queries has returned while the other, started with
\* a lower bound later than the first tick's, is still waiting.
C9_Witness ==
    /\ pc = "Querying"
    /\ N = 2
    /\ queries[2].status = "done"
    /\ queries[1].status = "pending"
    /\ queries[1].start_time = Some(LowerBound(601))

\* C10: a query is outstanding only while its tick is querying; when a tick
\* starts, queries, or sleeps, no event of an earlier merge is still to be
\* written; and no line is written while queries are outstanding.
C10_TicksSequential ==
    /\ (\E i \in 1..N : queries[i].status \in {"pushed", "pending"}) => pc = "Querying"
    /\ pc \in {"TickStart", "Querying", "Sleeping"} => new_events = <<>>
    /\ pc \in {"TickStart", "Sleeping"} =>
          \A i \in 1..N : queries[i].status = "none"
    /\ pc = "Querying" => Len(output) = tick_out

\* C10 witness: the queries of a later tick are outstanding and the lines of
\* an earlier tick are all in the output.
C10_Witness ==
    /\ pc = "Querying"
    /\ tick_out = 2
    /\ N = 2
    /\ \A i \in 1..N : queries[i].status = "pending"
\* The ids of a list of events.
IdsOf(events) == { events[k].event_id : k \in 1..Len(events) }

\* The ids held by the successful results of this tick.
OkIds ==
    UNION { IdsOf(results[k].events) :
              k \in { m \in 1..Len(results) : results[m].kind = "Ok" } }

\* The events of this tick that were not seen before, in arrival order.
Survivors == Dedup(Flatten(results), tick_seen, <<>>)[2]

\* No result of this tick holds an id that was not seen before the tick.
NoNewEvent == OkIds \subseteq tick_seen

\* C11 as claimed: the whole output is in non-decreasing order of timestamp.
C11_GloballyOrdered == NonDecreasing(output)

\* C11 as amended: a line is written after a line of a later timestamp only
\* when it is the first line of its tick; within a tick every line written is
\* not earlier than the line before it.
C11_OrderedWithinTicks ==
    [][ (Len(output') = Len(output) + 1 /\ Len(output) > tick_out)
            => output[Len(output)].timestamp <= output'[Len(output')].timestamp ]_vars

\* C11 witness: the first line of a later tick is earlier than the line
\* before it.
C11_Witness ==
    /\ Len(output) = 2
    /\ tick_out = 1
    /\ output[1].timestamp > output[2].timestamp

\* C13: no step removes an id from the seen set.
C13_SeenOnlyGrows == [][seen_events \subseteq seen_events']_vars

\* C13 witness: the seen set grew in a tick that found it non-empty.
C13_Witness ==
    /\ tick_seen # {}
    /\ tick_seen \subseteq seen_events
    /\ seen_events # tick_seen

\* C16: a tick whose results hold no unseen id merges, writes no line, leaves
\* the seen set as it found it, and can go to sleep; a sleeping loop can wake
\* and a woken loop can start its next tick.
C16_EmptyResultStability ==
    /\ (pc = "Merging" /\ NoNewEvent) => ENABLED Merge
    /\ (pc = "Rendering" /\ NoNewEvent) =>
          /\ new_events = <<>>
          /\ Len(output) = tick_out
          /\ seen_events = tick_seen
          /\ ENABLED Sleep
    /\ pc = "Sleeping" => ENABLED Wake
    /\ pc = "TickStart" => ENABLED (\E t \in ClockReadings : StartTick(t))

\* C16 witness: one query failed, the other returned only ids already seen,
\* and the tick is about to sleep having written nothing.
C16_Witness ==
    /\ TickRendered
    /\ N = 2
    /\ \E k \in 1..Len(results) : results[k].kind = "Err"
    /\ OkIds # {}
    /\ NoNewEvent
    /\ Len(output) = tick_out

\* C17: two surviving events of equal timestamp are written, or waiting to be
\* written, in the order they arrived in.
C17_StableTieBreak ==
    pc = "Rendering" =>
        \A i, j \in 1..Len(Survivors) :
            (i < j /\ Survivors[i].timestamp = Survivors[j].timestamp) =>
                \E k, l \in 1..Len(TickLines \o new_events) :
                    /\ k < l
                    /\ (TickLines \o new_events)[k] = Survivors[i]
                    /\ (TickLines \o new_events)[l] = Survivors[j]

\* C17 witness: the second group answered first, both groups brought an
\* event of the same timestamp, and the second group's line came first.
C17_Witness ==
    /\ TickRendered
    /\ N = 2
    /\ Len(TickLines) = 2
    /\ TickLines[1].timestamp = TickLines[2].timestamp
    /\ TickLines[1].group = group_names[2]
    /\ TickLines[2].group = group_names[1]

\* C18: whenever the loop sleeps, the seen set is the set of the ids of the
\* lines written so far.
C18_SeenEqualsRendered ==
    pc = "Sleeping" => seen_events = IdsOf(output)

\* C18 witness: the loop sleeps after a second tick that added an id.
C18_Witness ==
    /\ pc = "Sleeping"
    /\ tick_out = 1
    /\ Cardinality(seen_events) = 2

\* C19: while the queries of a tick are outstanding, and until the merge, the
\* seen set is as the tick found it; after the merge it holds, beyond that,
\* only ids of the successful results.
C19_FanOutLeavesSeen ==
    /\ pc \in {"Querying", "Merging"} => seen_events = tick_seen
    /\ pc = "Rendering" => seen_events = tick_seen \cup OkIds

\* C19 witness: a tick that found ids seen had one failed and one successful
\* query, and only the ids of the successful one were added.
C19_Witness ==
    /\ TickRendered
    /\ N = 2
    /\ tick_seen # {}
    /\ results[1].kind = "Err"
    /\ results[2].kind = "Ok"
    /\ seen_events # tick_seen
    /\ seen_events = tick_seen \cup OkIds
\* C14: the message of every line written is styled info (blue) when it
\* contains INFO, else error (red) when it contains ERROR, else warning
\* (yellow) when it contains WARN, else default.
C14_ClassificationPrecedence ==
    \A k \in 1..Len(output) :
        LET m == output[k].message.text
            style == output[k].message.style
        IN /\ Contains(m, INFO) => style = "blue"
           /\ (~Contains(m, INFO) /\ Contains(m, ERROR)) => style = "red"
           /\ (~Contains(m, INFO) /\ ~Contains(m, ERROR) /\ Contains(m, WARN))
                 => style = "yellow"
           /\ (~Contains(m, INFO) /\ ~Contains(m, ERROR) /\ ~Contains(m, WARN))
                 => style = "default"

\* C14 witness: a line whose message starts with ERROR, goes on with WARN and
\* holds INFO after them was written in the info style.
C14_Witness ==
    \E k \in 1..Len(output) :
        /\ output[k].message.text = ERROR \o WARN \o INFO
        /\ output[k].message.style = "blue"
\* C12: the lower bound of every tick after the first is not later than the
\* time the tick before it issued its queries.
C12_WindowsOverlap ==
    \A k \in 2..Len(issued) :
        LowerBound(issued[k]) <= issued[k - 1] * MS_PER_SEC

\* C15: with no group to watch the program goes from main to its exit and
\* nowhere else, the one line it writes is the message, and no tick starts
\* and no query exists.
C15_EmptyTargetExits ==
    /\ group_names = <<>> =>
          /\ pc \in {"Main", "Exited"}
          /\ issued = <<>>
          /\ queries = <<>>
          /\ seen_events = {}
          /\ output = IF pc = "Exited" THEN <<"No log groups to watch">> ELSE <<>>
    /\ pc = "Exited" => group_names = <<>>

\* C15 witness: the program has exited on an empty list of groups.
C15_Witness ==
    /\ group_names = <<>>
    /\ pc = "Exited"
    /\ output = <<"No log groups to watch">>

\* The time of an event the service holds, in milliseconds.
StoredTime(e) == UnwrapOrDefaultTs(e.timestamp)

\* C20: between ticks, an event of a watched group that was inside the
\* window of a tick and that no later tick can be answered with (the lower
\* bound has passed it) has been written.
C20_EventuallyDisplayed ==
    (pc = "TickStart" /\ refresh # None) =>
        \A i \in 1..N : \A k \in 1..Len(log[group_names[i]]) :
            LET e == log[group_names[i]][k] IN
            ( /\ \E n \in 1..Len(issued) :
                    /\ StoredTime(e) >= LowerBound(issued[n])
                    /\ StoredTime(e) <= issued[n] * MS_PER_SEC
              /\ StoredTime(e) < LowerBound(clock) )
                => \E l \in 1..Len(output) :
                       output[l].event_id = UnwrapOrDefaultId(e.event_id)
====
